---- MODULE Spec2Model ----
(***************************************************************************)
(* Model of the cloth simulation core: Grid (src/src/grid.rs), Particle,   *)
(* Constraint and Cloth (src/src/cloth.rs).                                *)
(*                                                                         *)
(* F = f32 is modelled as a fixed-point number with Unit steps per 1.0,    *)
(* extended with the IEEE special values NaN and +/-infinity, which the    *)
(* code can produce by dividing by a zero distance.  Arithmetic rounds to  *)
(* the nearest representable value.                                        *)
(***************************************************************************)
EXTENDS Integers, Sequences, FiniteSets, TLC

(* ------------------------------------------------------------------ *)
(* Bounds of the model                                                 *)
(* ------------------------------------------------------------------ *)
\* largest grid resolution constructed (the program is built with 30)
MaxSubdiv == 6
\* calls of add_force / step / set_fixed explored after construction
MaxCalls == 3
\* grid coordinates explored by the index operator go up to width + MaxOver
MaxOver == 2

(* ------------------------------------------------------------------ *)
(* F: fixed-point floats with NaN and infinities                       *)
(* ------------------------------------------------------------------ *)
\* resolution of F: representable values are multiples of 1/Unit
Unit == 1000

Abs(n) == IF n < 0 THEN -n ELSE n

Sgn(n) == IF n < 0 THEN -1 ELSE IF n > 0 THEN 1 ELSE 0

\* integer division rounding to nearest (ties away from zero), b # 0
RDiv(a, b) == Sgn(a) * Sgn(b) * ((2 * Abs(a) + Abs(b)) \div (2 * Abs(b)))

Fin(v) == [k |-> "fin", v |-> v]

NaN == [k |-> "nan", v |-> 0]

Inf(s) == [k |-> "inf", v |-> s]

IsNaN(a) == a.k = "nan"

FNeg(a) == IF a.k = "nan" THEN NaN ELSE [a EXCEPT !.v = -a.v]

FAdd(a, b) ==
    IF a.k = "nan" \/ b.k = "nan" THEN NaN
    ELSE IF a.k = "inf" /\ b.k = "inf" THEN (IF a.v = b.v THEN a ELSE NaN)
    ELSE IF a.k = "inf" THEN a
    ELSE IF b.k = "inf" THEN b
    ELSE Fin(a.v + b.v)

FSub(a, b) == FAdd(a, FNeg(b))

FMul(a, b) ==
    IF a.k = "nan" \/ b.k = "nan" THEN NaN
    ELSE IF a.k = "inf" \/ b.k = "inf"
         THEN (IF a.v = 0 \/ b.v = 0 THEN NaN ELSE Inf(Sgn(a.v) * Sgn(b.v)))
    ELSE Fin(RDiv(a.v * b.v, Unit))

FDiv(a, b) ==
    IF a.k = "nan" \/ b.k = "nan" THEN NaN
    ELSE IF a.k = "inf" THEN (IF b.k = "inf" THEN NaN
                              ELSE Inf(IF b.v < 0 THEN -a.v ELSE a.v))
    ELSE IF b.k = "inf" THEN Fin(0)
    ELSE IF b.v = 0 THEN (IF a.v = 0 THEN NaN ELSE Inf(Sgn(a.v)))
    ELSE Fin(RDiv(a.v * Unit, b.v))

\* a < b on floats: false as soon as one side is NaN
FLt(a, b) ==
    IF a.k = "nan" \/ b.k = "nan" THEN FALSE
    ELSE IF a.k = "inf" THEN (a.v < 0 /\ ~(b.k = "inf" /\ b.v < 0))
    ELSE IF b.k = "inf" THEN b.v > 0
    ELSE a.v < b.v

\* a == b on floats: NaN is not equal to anything, itself included
FEq(a, b) == a.k # "nan" /\ b.k # "nan" /\ a = b

RECURSIVE SqrtSearch(_, _, _)
\* largest r in lo..hi with r * r <= n
SqrtSearch(n, lo, hi) ==
    IF lo >= hi THEN lo
    ELSE LET mid == (lo + hi + 1) \div 2
         IN  IF mid * mid <= n THEN SqrtSearch(n, mid, hi)
             ELSE SqrtSearch(n, lo, mid - 1)

(* ------------------------------------------------------------------ *)
(* V = Vector3<F>, P = Point3<F>                                       *)
(* ------------------------------------------------------------------ *)
zero == <<Fin(0), Fin(0), Fin(0)>>

VAdd(u, v) == <<FAdd(u[1], v[1]), FAdd(u[2], v[2]), FAdd(u[3], v[3])>>

VSub(u, v) == <<FSub(u[1], v[1]), FSub(u[2], v[2]), FSub(u[3], v[3])>>

VNeg(u) == <<FNeg(u[1]), FNeg(u[2]), FNeg(u[3])>>

\* vector * scalar
VScale(u, s) == <<FMul(u[1], s), FMul(u[2], s), FMul(u[3], s)>>

\* vector / scalar
VDiv(u, s) == <<FDiv(u[1], s), FDiv(u[2], s), FDiv(u[3], s)>>

VEq(u, v) == FEq(u[1], v[1]) /\ FEq(u[2], v[2]) /\ FEq(u[3], v[3])

VFinite(u) == u[1].k = "fin" /\ u[2].k = "fin" /\ u[3].k = "fin"

\* sum of the squared components in units of 1/Unit^2 (exact for finite u)
SumSq(u) == u[1].v * u[1].v + u[2].v * u[2].v + u[3].v * u[3].v

norm_squared(u) ==
    IF IsNaN(u[1]) \/ IsNaN(u[2]) \/ IsNaN(u[3]) THEN NaN
    ELSE IF ~VFinite(u) THEN Inf(1)
    ELSE Fin(RDiv(SumSq(u), Unit))

norm(u) ==
    IF IsNaN(u[1]) \/ IsNaN(u[2]) \/ IsNaN(u[3]) THEN NaN
    ELSE IF ~VFinite(u) THEN Inf(1)
    ELSE LET n == SumSq(u)
             r == SqrtSearch(n, 0, Abs(u[1].v) + Abs(u[2].v) + Abs(u[3].v))
         IN  Fin(IF n - r * r > r THEN r + 1 ELSE r)

(* ------------------------------------------------------------------ *)
(* Program constants                                                   *)
(* ------------------------------------------------------------------ *)
CONSTRAINTS_ITER == 10

\* grid resolution of the cloth whose dynamics are explored: 30 in the source,
\* scaled down to the smallest grid on which the eight corner cells are distinct
SUBDIVISIONS == 4

\* 0.995
DAMPING == Fin((995 * Unit) \div 1000)

\* 0.3
EPSILON == Fin((3 * Unit) \div 10)

\* 0.05
DT == Fin(Unit \div 20)

DT_SQ == FMul(DT, DT)

\* how many nearest particles set_fixed selects
Nearest == 8

(* ------------------------------------------------------------------ *)
(* State                                                               *)
(* ------------------------------------------------------------------ *)
VARIABLES
    data,         \* Grid.data: the particles, row-major
    width,        \* Grid.width
    constraints,  \* Cloth.constraints, in construction order
    calls,        \* number of add_force / step / set_fixed calls so far
    op,           \* the last call and its arguments
    hist,         \* what the last step() did, phase by phase
    got           \* outcome of the last coordinate access grid[(x, y)]

vars == <<data, width, constraints, calls, op, hist, got>>

(* ------------------------------------------------------------------ *)
(* Grid<T>                                                             *)
(* ------------------------------------------------------------------ *)
\* flattened position of the coordinate idx = <<x, y>> (0-based)
GridPos(w, idx) == idx[2] * w + idx[1]

\* grid[idx]: the slice access data[pos] panics unless pos < data.len()
index(d, w, idx) ==
    LET pos == GridPos(w, idx)
    IN  IF pos < Len(d) THEN [panic |-> FALSE, pos |-> pos]
        ELSE [panic |-> TRUE, pos |-> pos]

\* the cell grid[idx] of an access that does not panic
At(d, w, idx) == d[index(d, w, idx).pos + 1]

(* ------------------------------------------------------------------ *)
(* Particle                                                            *)
(* ------------------------------------------------------------------ *)
ParticleNew(x, y, z) ==
    [p |-> <<x, y, z>>, old_p |-> <<x, y, z>>, a |-> zero, m |-> Fin(Unit),
     fixed |-> FALSE]

\* Particle::add_force
add_force(pt, f) == [pt EXCEPT !.a = VAdd(pt.a, VDiv(f, pt.m))]

\* offset with the pinned test forgotten
offset_unguarded(pt, v) == [pt EXCEPT !.p = VAdd(pt.p, v)]

\* Particle::offset
offset(pt, v) == IF ~pt.fixed THEN [pt EXCEPT !.p = VAdd(pt.p, v)] ELSE pt

\* Particle::step (Verlet position integration)
integrate(pt) ==
    IF ~pt.fixed
    THEN [pt EXCEPT
            !.p = VAdd(pt.p, VAdd(VScale(VSub(pt.p, pt.old_p), DAMPING),
                                  VScale(pt.a, DT_SQ))),
            !.old_p = pt.p,
            !.a = zero]
    ELSE pt

\* derived PartialEq of Particle: field by field, floats by IEEE equality
ParticleEq(a, b) ==
    /\ VEq(a.p, b.p)
    /\ VEq(a.old_p, b.old_p)
    /\ VEq(a.a, b.a)
    /\ FEq(a.m, b.m)
    /\ a.fixed = b.fixed

(* ------------------------------------------------------------------ *)
(* Cloth::new                                                          *)
(* ------------------------------------------------------------------ *)
\* outcomes of rand::thread_rng().gen_range(20., 20.1) explored: the value
\* drawn for particle i under seed s
Jitter(s, i) == Fin(20 * Unit + ((s * i) % 3) * (Unit \div 40))

\* x as F / SUBDIVISIONS as F
Ratio(x, S) == FDiv(Fin(x * Unit), Fin(S * Unit))

Parts(w, h, S, s) ==
    [i \in 1..(S * S) |->
        LET x == (i - 1) % S
            y == (i - 1) \div S
        IN  ParticleNew(FMul(w, Ratio(x, S)),
                        FMul(FNeg(h), Ratio(y, S)),
                        FAdd(FMul(FMul(Fin(Unit \div 2), h), Ratio(y, S)),
                             Jitter(s, i)))]

\* the corner pattern one cell deep in y instead of two cells wide in x
Corners_diagonal(S) ==
    << <<0, 0>>, <<1, 1>>, <<S - 2, 1>>, <<S - 1, 0>>,
       <<0, S - 1>>, <<1, S - 2>>, <<S - 2, S - 2>>, <<S - 1, S - 1>> >>

\* the coordinates fixed at simulation start, in assignment order
Corners(S) ==
    << <<0, 0>>, <<1, 0>>, <<S - 2, 0>>, <<S - 1, 0>>,
       <<0, S - 1>>, <<1, S - 1>>, <<S - 2, S - 1>>, <<S - 1, S - 1>> >>

RECURSIVE FixAll(_, _, _, _)
\* particles[c].fixed = true for the coordinates cs[k..]
FixAll(d, w, cs, k) ==
    IF k > Len(cs) THEN d
    ELSE FixAll([d EXCEPT ![index(d, w, cs[k]).pos + 1].fixed = TRUE],
                w, cs, k + 1)

\* Constraint::new
ConstraintNew(p1, p2, d, w) ==
    [p1 |-> p1, p2 |-> p2, d |-> norm(VSub(At(d, w, p1).p, At(d, w, p2).p))]

\* the springs of a cell with the cross-diagonal shear spring left out
CellConstraints_one_shear(x, y, S, d) ==
    (IF x < S - 1 THEN <<ConstraintNew(<<x, y>>, <<x + 1, y>>, d, S)>> ELSE <<>>)
    \o (IF y < S - 1 THEN <<ConstraintNew(<<x, y>>, <<x, y + 1>>, d, S)>> ELSE <<>>)
    \o (IF x < S - 1 /\ y < S - 1
        THEN <<ConstraintNew(<<x, y>>, <<x + 1, y + 1>>, d, S)>>
        ELSE <<>>)
    \o (IF x < S - 2 THEN <<ConstraintNew(<<x, y>>, <<x + 2, y>>, d, S)>> ELSE <<>>)
    \o (IF y < S - 2 THEN <<ConstraintNew(<<x, y>>, <<x, y + 2>>, d, S)>> ELSE <<>>)

\* the springs pushed for the cell (x, y), in push order
CellConstraints(x, y, S, d) ==
    (IF x < S - 1 THEN <<ConstraintNew(<<x, y>>, <<x + 1, y>>, d, S)>> ELSE <<>>)
    \o (IF y < S - 1 THEN <<ConstraintNew(<<x, y>>, <<x, y + 1>>, d, S)>> ELSE <<>>)
    \o (IF x < S - 1 /\ y < S - 1
        THEN <<ConstraintNew(<<x, y>>, <<x + 1, y + 1>>, d, S),
               ConstraintNew(<<x + 1, y>>, <<x, y + 1>>, d, S)>>
        ELSE <<>>)
    \o (IF x < S - 2 THEN <<ConstraintNew(<<x, y>>, <<x + 2, y>>, d, S)>> ELSE <<>>)
    \o (IF y < S - 2 THEN <<ConstraintNew(<<x, y>>, <<x, y + 2>>, d, S)>> ELSE <<>>)

RECURSIVE BuildConstraints(_, _, _)
\* for y in 0..S { for x in 0..S { ... } }, from cell number k on
BuildConstraints(k, S, d) ==
    IF k >= S * S THEN <<>>
    ELSE CellConstraints(k % S, k \div S, S, d) \o BuildConstraints(k + 1, S, d)

ClothNew(w, h, S, s) ==
    LET particles == FixAll(Parts(w, h, S, s), S, Corners(S), 1)
    IN  [data |-> particles, width |-> S,
         constraints |-> BuildConstraints(0, S, particles)]

(* ------------------------------------------------------------------ *)
(* Cloth::add_force                                                    *)
(* ------------------------------------------------------------------ *)
cloth_add_force(d, f) == [i \in 1..Len(d) |-> add_force(d[i], f)]

(* ------------------------------------------------------------------ *)
(* Cloth::step                                                         *)
(* ------------------------------------------------------------------ *)
Ev(ph, i) == [ph |-> ph, i |-> i]

\* body of the inner loop for one constraint c
relax_one(d, w, c) ==
    LET i1  == index(d, w, c.p1).pos + 1
        i2  == index(d, w, c.p2).pos + 1
        p12 == VSub(d[i2].p, d[i1].p)
        dd  == norm(p12)
        f_c == VScale(VDiv(p12, dd), FMul(DT, FSub(dd, c.d)))
        d1  == [d EXCEPT ![i1] = offset(@, f_c)]
    IN  [d1 EXCEPT ![i2] = offset(@, VNeg(f_c))]

RECURSIVE relax_pass(_, _, _, _)
\* for constraint in &self.constraints, from constraint number k on;
\* st = [d: the particles, log: the visits so far].  (Every loop below reads
\* st in its test, so that st is evaluated once per iteration.)
relax_pass(st, w, cs, k) ==
    IF Len(st.d) = 0 \/ k > Len(cs) THEN st
    ELSE relax_pass([d   |-> relax_one(st.d, w, cs[k]),
                     log |-> Append(st.log, Ev("relax", k))],
                    w, cs, k + 1)

RECURSIVE relax(_, _, _, _)
\* for _ in 0..CONSTRAINTS_ITER, with it passes still to run
relax(st, w, cs, it) ==
    IF Len(st.d) = 0 \/ it = 0 THEN st
    ELSE relax(relax_pass(st, w, cs, 1), w, cs, it - 1)

\* self.particles.iter_mut().for_each(Particle::step)
integrate_all(st) ==
    [d   |-> [i \in 1..Len(st.d) |-> integrate(st.d[i])],
     log |-> st.log \o [i \in 1..Len(st.d) |-> Ev("integrate", i)]]

\* the pair test and the two pushes for p1 = d[i1 + 1] and the i2-th
\* particle of d.iter().skip(i1), indices 0-based as in the code
scan_pair(d, i1, i2) ==
    LET p1   == d[i1 + 1]
        p2   == d[i1 + i2 + 1]
        diff == VSub(p2.p, p1.p)
        dd   == norm(diff)
    IN  IF ~ParticleEq(p1, p2) /\ FLt(dd, EPSILON)
        THEN LET ratio == FDiv(EPSILON, dd)
                 delta == VScale(diff, FSub(Fin(Unit), ratio))
             IN  << <<i1, delta>>, <<i2, VNeg(delta)>> >>
        ELSE <<>>

RECURSIVE scan_row(_, _, _)
\* for (i2, p2) in self.particles.iter().skip(i1).enumerate(), from i2 on
scan_row(d, i1, i2) ==
    IF i1 + i2 >= Len(d) THEN <<>>
    ELSE scan_pair(d, i1, i2) \o scan_row(d, i1, i2 + 1)

RECURSIVE scan(_, _)
\* for (i1, p1) in self.particles.iter().enumerate(), from i1 on
scan(d, i1) ==
    IF i1 >= Len(d) THEN <<>>
    ELSE scan_row(d, i1, 0) \o scan(d, i1 + 1)

RECURSIVE apply_mods(_, _, _)
\* for (idx, delta) in mods { self.particles.data[idx].offset(delta) }
apply_mods(st, mods, k) ==
    IF Len(st.d) = 0 \/ k > Len(mods) THEN st
    ELSE apply_mods([d   |-> [st.d EXCEPT ![mods[k][1] + 1] = offset(@, mods[k][2])],
                     log |-> Append(st.log, Ev("apply", mods[k][1]))],
                    mods, k + 1)

RECURSIVE scan_row_in_place(_, _, _)
\* the inner loop of the scan with every correction applied as soon as it is
\* computed; st = [d, log, mods]
scan_row_in_place(st, i1, i2) ==
    IF Len(st.d) = 0 \/ i1 + i2 >= Len(st.d) THEN st
    ELSE LET m == scan_pair(st.d, i1, i2)
             r == apply_mods([d |-> st.d, log |-> st.log], m, 1)
         IN  scan_row_in_place([d |-> r.d, log |-> r.log, mods |-> st.mods \o m],
                               i1, i2 + 1)

RECURSIVE scan_in_place(_, _)
scan_in_place(st, i1) ==
    IF Len(st.d) = 0 \/ i1 >= Len(st.d) THEN st
    ELSE scan_in_place(scan_row_in_place(st, i1, 0), i1 + 1)

collide_in_place(st) ==
    scan_in_place([d |-> st.d, log |-> Append(st.log, Ev("scan", 0)), mods |-> <<>>], 0)

\* point-point collision checking: the scan fills mods, then mods is applied
collide(st) ==
    LET mods == scan(st.d, 0)
        r    == apply_mods([d |-> st.d, log |-> Append(st.log, Ev("scan", 0))],
                           mods, 1)
    IN  [d |-> r.d, log |-> r.log, mods |-> mods]

\* step with integration moved in front of the constraint relaxation
step_integrate_first(d, w, cs) ==
    LET integrated == integrate_all([d |-> d, log |-> <<>>])
        relaxed    == relax(integrated, w, cs, CONSTRAINTS_ITER)
        collided   == collide(relaxed)
    IN  [ran        |-> TRUE,
         pre        |-> d,
         relaxed    |-> relaxed.d,
         integrated |-> integrated.d,
         mods       |-> collided.mods,
         log        |-> collided.log,
         d          |-> collided.d]

\* Cloth::step: the particles after the call, and what each phase did
step(d, w, cs) ==
    LET relaxed    == relax([d |-> d, log |-> <<>>], w, cs, CONSTRAINTS_ITER)
        integrated == integrate_all(relaxed)
        collided   == collide(integrated)
    IN  [ran        |-> TRUE,
         pre        |-> d,
         relaxed    |-> relaxed.d,
         integrated |-> integrated.d,
         mods       |-> collided.mods,
         log        |-> collided.log,
         d          |-> collided.d]

(* ------------------------------------------------------------------ *)
(* Cloth::set_fixed                                                    *)
(* ------------------------------------------------------------------ *)
\* the comparator with its arguments swapped
cmp_swapped(a, b) == IF FLt(b, a) THEN "Less" ELSE IF FLt(a, b) THEN "Greater" ELSE "Equal"

\* a.partial_cmp(b).unwrap_or(Equal)
cmp(a, b) == IF FLt(a, b) THEN "Less" ELSE IF FLt(b, a) THEN "Greater" ELSE "Equal"

RECURSIVE sorted_by(_)
\* .sorted_by(..): the lazy quicksort of the keyed items s, smallest key first.
\* An item goes below the pivot only when the comparator says Less.
sorted_by(s) ==
    IF Len(s) <= 1 THEN s
    ELSE LET pivot == Head(s)
             rest  == Tail(s)
             Below(e) == cmp(e[1], pivot[1]) = "Less"
             NotBelow(e) == ~Below(e)
         IN  sorted_by(SelectSeq(rest, Below)) \o <<pivot>>
             \o sorted_by(SelectSeq(rest, NotBelow))

\* .take(n)
take(s, n) == SubSeq(s, 1, IF n < Len(s) THEN n ELSE Len(s))

\* the particle indices set_fixed selects for the point p
selected(d, p) ==
    LET keyed == [i \in 1..Len(d) |-> <<norm_squared(VSub(d[i].p, p)), i>>]
        first == take(sorted_by(keyed), Nearest)
    IN  {first[k][2] : k \in 1..Len(first)}

set_fixed(d, p, fixed) ==
    LET sel == selected(d, p)
    IN  [i \in 1..Len(d) |-> IF i \in sel THEN [d[i] EXCEPT !.fixed = fixed] ELSE d[i]]

(* ------------------------------------------------------------------ *)
(* Inputs explored                                                     *)
(* ------------------------------------------------------------------ *)
Subdivs == SUBDIVISIONS..MaxSubdiv

Widths == {Fin(0), Fin(Unit)}

Heights == {Fin(Unit)}

Seeds == {0, 1}

\* the <<width, height, seed>> whose dynamics are explored: a regular cloth,
\* and two cloths of width zero, where particles of a row can coincide
Configs == {<<Fin(Unit), Fin(Unit), 0>>, <<Fin(0), Fin(Unit), 1>>,
            <<Fin(0), Fin(Unit), 0>>}

NoHist == [ran |-> FALSE]

NoAccess == [x |-> 0, y |-> 0, done |-> FALSE, panic |-> FALSE, pos |-> 0]

\* the state Cloth::new(w, h) leaves for resolution S and jitter seed s
Constructed(w, h, S, s) ==
    LET c == ClothNew(w, h, S, s)
    IN  /\ data = c.data
        /\ width = c.width
        /\ constraints = c.constraints
        /\ calls = 0
        /\ op = [name |-> "new", w |-> w, h |-> h, seed |-> s]
        /\ hist = NoHist
        /\ got = NoAccess

Init == \E c \in Configs : Constructed(c[1], c[2], SUBDIVISIONS, c[3])

InitGrid ==
    \E w \in Widths, h \in Heights, S \in Subdivs, s \in Seeds : Constructed(w, h, S, s)

\* add_force argument explored: the host's gravity and a crosswind in one vector
Forces == {<<Fin(0), Fin(-(Unit \div 5)), Fin(Unit \div 10)>>}

\* set_fixed points explored: the top-left corner and a point of the left edge
Points == {<<Fin(0), Fin(0), Fin(20 * Unit)>>,
           <<Fin(0), Fin(-(Unit \div 2)), Fin(20 * Unit + (3 * Unit) \div 10)>>}

(* ------------------------------------------------------------------ *)
(* Actions                                                             *)
(* ------------------------------------------------------------------ *)
AddForce(f) ==
    /\ calls < MaxCalls
    /\ data' = cloth_add_force(data, f)
    /\ calls' = calls + 1
    /\ op' = [name |-> "add_force", f |-> f]
    /\ UNCHANGED <<width, constraints, hist, got>>

Step ==
    /\ calls < MaxCalls
    /\ LET r == step(data, width, constraints)
       IN  /\ data' = r.d
           /\ hist' = r
    /\ calls' = calls + 1
    /\ op' = [name |-> "step"]
    /\ UNCHANGED <<width, constraints, got>>

SetFixed(p, fixed) ==
    /\ calls < MaxCalls
    /\ data' = set_fixed(data, p, fixed)
    /\ calls' = calls + 1
    /\ op' = [name |-> "set_fixed", p |-> p, fixed |-> fixed, before |-> data,
              sel |-> selected(data, p)]
    /\ UNCHANGED <<width, constraints, hist, got>>

\* grid[(x, y)], read or write access: only the outcome is recorded
Index(x, y) ==
    /\ got' = [x |-> x, y |-> y, done |-> TRUE] @@ index(data, width, <<x, y>>)
    /\ UNCHANGED <<data, width, constraints, calls, op, hist>>

Next ==
    \/ \E f \in Forces : AddForce(f)
    \/ Step
    \/ \E p \in Points, fixed \in BOOLEAN : SetFixed(p, fixed)

Spec == Init /\ [][Next]_vars

NextGrid == \E x \in 0..(width + MaxOver), y \in 0..(width + MaxOver) : Index(x, y)

SpecGrid == InitGrid /\ [][NextGrid]_vars

(* ------------------------------------------------------------------ *)
(* Properties                                                          *)
(* ------------------------------------------------------------------ *)
N == Len(data)

Free(d) == {i \in 1..Len(d) : ~d[i].fixed}

\* how often the entry e occurs in the sequence s
Count(s, e) == Cardinality({k \in 1..Len(s) : s[k] = e})

\* the log of one tick over n particles and m constraints, up to the scan
TickLog(n, m) ==
    [j \in 1..(CONSTRAINTS_ITER * m + n + 1) |->
        IF j <= CONSTRAINTS_ITER * m THEN Ev("relax", ((j - 1) % m) + 1)
        ELSE IF j <= CONSTRAINTS_ITER * m + n
             THEN Ev("integrate", j - CONSTRAINTS_ITER * m)
             ELSE Ev("scan", 0)]

\* C1: every step() runs CONSTRAINTS_ITER full relaxation passes over all the
\* constraints, then integrates every particle once, then runs one collision
\* pass, in this order; relaxation and the collision pass leave the
\* accumulated acceleration alone, integration is where it enters the position.
C1_PhaseOrder ==
    hist.ran =>
        LET n == Len(hist.pre)
            m == Len(constraints)
            k == CONSTRAINTS_ITER * m + n + 1
        IN  /\ Len(hist.log) = k + Len(hist.mods)
            /\ SubSeq(hist.log, 1, k) = TickLog(n, m)
            /\ \A j \in (k + 1)..Len(hist.log) : hist.log[j].ph = "apply"
            /\ \A i \in 1..n :
                /\ hist.relaxed[i].a = hist.pre[i].a
                /\ hist.relaxed[i].old_p = hist.pre[i].old_p
                /\ hist.d[i].a = hist.integrated[i].a
                /\ hist.d[i].old_p = hist.integrated[i].old_p
                /\ ~hist.pre[i].fixed =>
                    /\ hist.integrated[i].old_p = hist.relaxed[i].p
                    /\ hist.integrated[i].p =
                         VAdd(hist.relaxed[i].p,
                              VAdd(VScale(VSub(hist.relaxed[i].p, hist.pre[i].old_p),
                                          DAMPING),
                                   VScale(hist.pre[i].a, DT_SQ)))

\* a step that consumed a force, moved a particle by it and queued corrections
C1_Witness ==
    /\ hist.ran
    /\ Len(hist.mods) > 0
    /\ \E i \in Free(hist.pre) :
        /\ hist.pre[i].a # zero
        /\ VFinite(hist.integrated[i].p)
        /\ hist.integrated[i].p # hist.relaxed[i].p
        /\ hist.relaxed[i].p # hist.pre[i].p

\* C2: whatever call is made, a particle that is pinned before the call has
\* the same position and previous position after it.
C2_PinImmovable ==
    [][\A i \in 1..Len(data) :
          data[i].fixed => /\ data'[i].p = data[i].p
                           /\ data'[i].old_p = data[i].old_p]_vars

\* a pinned particle that carried a force through a step whose relaxation
\* moved a neighbour and whose collision pass queued a real correction for it
C2_Witness ==
    /\ hist.ran
    /\ \E i \in 1..Len(hist.pre) :
        /\ hist.pre[i].fixed
        /\ hist.pre[i].a # zero
        /\ hist.d[i].p = hist.pre[i].p
        /\ hist.d[i].old_p = hist.pre[i].old_p
        /\ \E k \in 1..Len(hist.mods) :
            /\ hist.mods[k][1] = i - 1
            /\ VFinite(hist.mods[k][2])
            /\ hist.mods[k][2] # zero
        /\ \E c \in 1..Len(constraints) :
            /\ GridPos(width, constraints[c].p1) = i - 1
            /\ LET j == GridPos(width, constraints[c].p2) + 1
               IN  hist.relaxed[j].p # hist.pre[j].p

\* the correction the collision pass computes for the particles a and b
PairDelta(a, b) ==
    LET diff == VSub(b.p, a.p)
    IN  VScale(diff, FSub(Fin(Unit), FDiv(EPSILON, norm(diff))))

\* the pairs i < j (1-based) closer than EPSILON but not at distance zero
ClosePairs(d) ==
    {ij \in (1..Len(d)) \X (1..Len(d)) :
        /\ ij[1] < ij[2]
        /\ LET dd == norm(VSub(d[ij[2]].p, d[ij[1]].p))
           IN  FLt(Fin(0), dd) /\ FLt(dd, EPSILON)}

\* C3: the collision pass queues, for every pair i < j with 0 < d < EPSILON,
\* delta for particle i and -delta for particle j, and nothing else; a lone
\* close pair of free particles ends at least EPSILON apart, midpoint kept.
C3_PairCorrections ==
    hist.ran =>
        LET snap == hist.integrated
            cp   == ClosePairs(snap)
            \* how many entries equal to e the close pairs call for
            Due(e) ==
                Cardinality({ij \in cp :
                    e = <<ij[1] - 1, PairDelta(snap[ij[1]], snap[ij[2]])>>})
                + Cardinality({ij \in cp :
                    e = <<ij[2] - 1, VNeg(PairDelta(snap[ij[1]], snap[ij[2]]))>>})
        IN  /\ Len(hist.mods) = 2 * Cardinality(cp)
            /\ \A k \in 1..Len(hist.mods) :
                Count(hist.mods, hist.mods[k]) = Due(hist.mods[k])
            /\ \A ij \in cp :
                (/\ cp = {ij}
                 /\ ~snap[ij[1]].fixed
                 /\ ~snap[ij[2]].fixed)
                => /\ ~FLt(norm(VSub(hist.d[ij[2]].p, hist.d[ij[1]].p)), EPSILON)
                   /\ VAdd(hist.d[ij[1]].p, hist.d[ij[2]].p)
                        = VAdd(snap[ij[1]].p, snap[ij[2]].p)

\* the particle indices (1-based) nearest to the point, as recorded by the call
Dist(i) == norm_squared(VSub(op.before[i].p, op.p))

Min(a, b) == IF a < b THEN a ELSE b

\* C4: set_fixed sets the flag on exactly min(8, n) particles, none of the
\* others is strictly closer to the point than one of them, and nothing but
\* the flag of the selected particles changes.
C4_Nearest ==
    op.name = "set_fixed" =>
        /\ Cardinality(op.sel) = Min(8, N)
        /\ op.sel \subseteq 1..N
        /\ \A i \in op.sel : data[i] = [op.before[i] EXCEPT !.fixed = op.fixed]
        /\ \A j \in (1..N) \ op.sel : data[j] = op.before[j]
        /\ \A i \in op.sel, j \in (1..N) \ op.sel : ~FLt(Dist(j), Dist(i))

\* a call that changed the flag of a selected particle while an unselected
\* particle lies strictly farther away and another keeps a different flag
C4_Witness ==
    /\ op.name = "set_fixed"
    /\ \E i \in op.sel : data[i].fixed # op.before[i].fixed
    /\ \E i \in op.sel, j \in (1..N) \ op.sel :
        FLt(Dist(i), Dist(j)) /\ data[j].fixed # op.fixed

\* C5: grid[(x, y)] panics when x >= width or the flattened index is not an
\* index of the backing sequence, and otherwise yields cell y * width + x.
C5_IndexChecked ==
    got.done =>
        IF got.x >= width \/ got.y * width + got.x >= Len(data)
        THEN got.panic
        ELSE ~got.panic /\ got.pos = got.y * width + got.x

\* C6: right after construction the pinned particles are exactly the eight
\* at (0,0), (1,0), (S-2,0), (S-1,0), (0,S-1), (1,S-1), (S-2,S-1), (S-1,S-1).
C6_CornerPinning ==
    op.name = "new" =>
        LET S == width
            named == {<<0, 0>>, <<1, 0>>, <<S - 2, 0>>, <<S - 1, 0>>,
                      <<0, S - 1>>, <<1, S - 1>>, <<S - 2, S - 1>>, <<S - 1, S - 1>>}
        IN  /\ {i \in 1..N : data[i].fixed} = {c[2] * S + c[1] + 1 : c \in named}
            /\ Cardinality({i \in 1..N : data[i].fixed}) = 8

\* a freshly constructed cloth with pinned and free particles
C6_Witness ==
    /\ op.name = "new"
    /\ width > SUBDIVISIONS
    /\ N = width * width
    /\ \E i, j \in 1..N : data[i].fixed /\ ~data[j].fixed

\* C7: right after every step() the acceleration of every particle is zero.
C7_AccelerationCleared ==
    op.name = "step" => \A i \in 1..N : data[i].a = zero

\* C8: the collision pass queues nothing for two distinct particles at the
\* same position, whatever their other fields.
C8_ZeroSeparationSkipped ==
    hist.ran =>
        \A i, j \in 1..Len(hist.integrated) :
            (i < j /\ VEq(hist.integrated[i].p, hist.integrated[j].p))
            => scan_pair(hist.integrated, i - 1, j - i) = <<>>

\* the links the construction rules give an S x S grid, as pairs of coordinates
Links(S) ==
    LET C == (0..(S - 1)) \X (0..(S - 1))
    IN  {<<c, <<c[1] + 1, c[2]>>>> : c \in {c \in C : c[1] < S - 1}}
        \cup {<<c, <<c[1], c[2] + 1>>>> : c \in {c \in C : c[2] < S - 1}}
        \cup {<<c, <<c[1] + 1, c[2] + 1>>>> :
                c \in {c \in C : c[1] < S - 1 /\ c[2] < S - 1}}
        \cup {<< <<c[1] + 1, c[2]>>, <<c[1], c[2] + 1>> >> :
                c \in {c \in C : c[1] < S - 1 /\ c[2] < S - 1}}
        \cup {<<c, <<c[1] + 2, c[2]>>>> : c \in {c \in C : c[1] < S - 2}}
        \cup {<<c, <<c[1], c[2] + 2>>>> : c \in {c \in C : c[2] < S - 2}}

\* C9: the constraints are exactly the structural, shear and flexion links of
\* the grid; every endpoint is in bounds, the endpoints of a constraint are
\* distinct, and no unordered pair of particles is linked twice.
C9_ConstraintNetwork ==
    LET S == width
        M == Len(constraints)
    IN  /\ {<<constraints[k].p1, constraints[k].p2>> : k \in 1..M} = Links(S)
        /\ \A k \in 1..M :
            /\ constraints[k].p1 \in (0..(S - 1)) \X (0..(S - 1))
            /\ constraints[k].p2 \in (0..(S - 1)) \X (0..(S - 1))
            /\ constraints[k].p1 # constraints[k].p2
        /\ \A k, l \in 1..M :
            k # l => {constraints[k].p1, constraints[k].p2}
                       # {constraints[l].p1, constraints[l].p2}

\* a network that holds a structural, a cross-diagonal shear and a flexion link
C9_Witness ==
    /\ width > SUBDIVISIONS
    /\ \E k \in 1..Len(constraints) :
        constraints[k].p1 = <<1, 0>> /\ constraints[k].p2 = <<0, 1>>
    /\ \E k \in 1..Len(constraints) :
        constraints[k].p1 = <<0, 0>> /\ constraints[k].p2 = <<2, 0>>
    /\ \E k \in 1..Len(constraints) :
        constraints[k].p1 = <<0, 0>> /\ constraints[k].p2 = <<0, 1>>

\* C10: every correction of a collision pass is computed from the positions
\* the particles had when the scan began, and the corrections are applied
\* only after the scan: the particles no correction names keep these positions.
C10_Deferred ==
    hist.ran =>
        LET snap == hist.integrated
            n    == Len(snap)
            k0   == Len(hist.log) - Len(hist.mods)
        IN  /\ Len(hist.mods) % 2 = 0
            /\ \A k \in 1..Len(hist.mods) :
                k % 2 = 1 =>
                    /\ \E j \in (hist.mods[k][1] + 2)..n :
                        hist.mods[k][2] = PairDelta(snap[hist.mods[k][1] + 1], snap[j])
                    /\ hist.mods[k + 1][2] = VNeg(hist.mods[k][2])
            /\ hist.log[k0] = Ev("scan", 0)
            /\ \A k \in 1..Len(hist.mods) :
                hist.log[k0 + k] = Ev("apply", hist.mods[k][1])
            /\ \A i \in 1..n :
                (\A k \in 1..Len(hist.mods) : hist.mods[k][1] # i - 1)
                => hist.d[i] = snap[i]

\* a pass in which a free particle was moved by the correction of one pair
\* while a later pair of the scan also involves it
C10_Witness ==
    /\ hist.ran
    /\ \E k, l \in 1..Len(hist.mods) :
        /\ k % 2 = 1 /\ l % 2 = 1 /\ k < l
        /\ hist.mods[k][1] = hist.mods[l][1]
        /\ ~hist.integrated[hist.mods[k][1] + 1].fixed
        /\ VFinite(hist.mods[k][2]) /\ hist.mods[k][2] # zero
        /\ VFinite(hist.mods[l][2]) /\ hist.mods[l][2] # zero

====
